---- MODULE Spec2Model ----
(***************************************************************************)
(* State-machine model of src/main.py, the dBASE III+ clone: the table /   *)
(* record data model (Field, DBASETable) and the command handlers of       *)
(* DBASEInterpreter (CREATE, USE, ADD FIELD, ADD RECORD, SET, LIST, SAVE,  *)
(* QUIT).                                                                  *)
(*                                                                         *)
(* A command's argument string is modelled as the sequence of its          *)
(* whitespace-separated words; str.upper and shlex.split act word by word. *)
(* An uncaught Python exception leaves the handler at the raise: the       *)
(* assignments made so far stay, the rest is not executed, and no further  *)
(* command is read (cmd.Cmd.cmdloop does not catch it).                    *)
(***************************************************************************)
EXTENDS Integers, Sequences, FiniteSets, TLC

VARIABLES tables, current_table, show_record_numbers, relations, last, ncmds

vars == <<tables, current_table, show_record_numbers, relations, last, ncmds>>

\* the database proper: everything but the observation of the last command
db == <<tables, current_table, show_record_numbers, relations>>

(***************************************************************************)
(* Bounds of the exploration.                                              *)
(***************************************************************************)
MaxCmds == 5
MaxFields == 2
MaxRecords == 2
MaxRelations == 2
MaxCursor == 3

\* self.current_table = None
None == "<None>"

(***************************************************************************)
(* Strings.  TLC has no character operations, so the string functions the  *)
(* handlers use are tabulated over the words the commands are drawn from.  *)
(***************************************************************************)

\* str.upper
upper(s) ==
    CASE s = "customers" -> "CUSTOMERS"
      [] s = "orders" -> "ORDERS"
      [] s = "id" -> "ID"
      [] s = "name" -> "NAME"
      [] s = "record" -> "RECORD"
      [] s = "on" -> "ON"
      [] s = "off" -> "OFF"
      [] s = "next" -> "NEXT"
      [] s = "all" -> "ALL"
      [] s = "for" -> "FOR"
      [] s = "alice" -> "ALICE"
      [] s = "\"alice\"" -> "\"ALICE\""
      [] s = "'\"alice\"'" -> "'\"ALICE\"'"
      [] OTHER -> s

\* shlex.split on one word: one level of quoting is removed
unquote(s) ==
    CASE s = "\"1001\"" -> "1001"
      [] s = "\"9999\"" -> "9999"
      [] s = "\"ALICE\"" -> "ALICE"
      [] s = "\"alice\"" -> "alice"
      [] s = "'\"1001\"'" -> "\"1001\""
      [] s = "'\"9999\"'" -> "\"9999\""
      [] s = "'\"ALICE\"'" -> "\"ALICE\""
      [] s = "'\"alice\"'" -> "\"alice\""
      [] OTHER -> s

\* shlex.split(arg): the words of arg, each unquoted
shlex_split(arg) == [i \in 1..Len(arg) |-> unquote(arg[i])]

\* arg.upper(): the words of arg, each upper-cased
upper_words(arg) == [i \in 1..Len(arg) |-> upper(arg[i])]

\* the words int() accepts, and their values
Numerals == {"-1", "0", "1", "2", "3", "4", "10", "1001", "9999"}

int(s) ==
    CASE s = "-1" -> -1
      [] s = "0" -> 0
      [] s = "1" -> 1
      [] s = "2" -> 2
      [] s = "3" -> 3
      [] s = "4" -> 4
      [] s = "10" -> 10
      [] s = "1001" -> 1001
      [] s = "9999" -> 9999

\* len(str(value))
strlen(s) ==
    CASE s = "" -> 0
      [] s = "1001" -> 4
      [] s = "9999" -> 4
      [] s = "ALICE" -> 5
      [] s = "BOB" -> 3
      [] s = "alice" -> 5
      [] s = "\"1001\"" -> 6
      [] OTHER -> 4

\* '.' in field, and field.split('.'): an own field has no table part
dotted(s) ==
    CASE s = "CUSTOMERS.NAME" -> [t |-> "CUSTOMERS", f |-> "NAME"]
      [] s = "CUSTOMERS.ID" -> [t |-> "CUSTOMERS", f |-> "ID"]
      [] s = "ORDERS.ID" -> [t |-> "ORDERS", f |-> "ID"]
      [] s = "ORDERS.NAME" -> [t |-> "ORDERS", f |-> "NAME"]
      [] s = "GHOST.ID" -> [t |-> "GHOST", f |-> "ID"]
      [] OTHER -> [t |-> "", f |-> s]

\* f"{table}.{field}" as get_related_fields builds it
qualified(t, f) == [t |-> t, f |-> f]

(***************************************************************************)
(* Field and DBASETable.                                                   *)
(***************************************************************************)

\* Field.__init__
Field(name, type, width, decimals) ==
    [name |-> name, type |-> type, width |-> width, decimals |-> decimals]

\* DBASETable.__init__
DBASETable(name) ==
    [name |-> name, fields |-> <<>>, records |-> <<>>, current_record |-> 0]

\* list(table.fields.keys())
keys(fields) == [i \in 1..Len(fields) |-> fields[i].name]

\* name in table.fields
has_key(fields, name) == \E i \in 1..Len(fields) : fields[i].name = name

\* list.index(x), 1-based; 0 stands for ValueError
index(seq, x) ==
    IF \E i \in 1..Len(seq) : seq[i] = x
    THEN CHOOSE i \in 1..Len(seq) : seq[i] = x /\ \A j \in 1..(i - 1) : seq[j] # x
    ELSE 0

\* add_field on a list of fields: the new definition always goes to the end
add_field_append(table, name, type, width, decimals) ==
    [table EXCEPT !.fields = Append(table.fields, Field(name, type, width, decimals))]

\* add_field keeping the definition a name already has (setdefault)
add_field_keep_first(table, name, type, width, decimals) ==
    IF has_key(table.fields, name)
    THEN table
    ELSE [table EXCEPT !.fields = Append(table.fields, Field(name, type, width, decimals))]

\* DBASETable.add_field: an OrderedDict assignment replaces the value of an
\* existing key in place and appends a new key at the end
add_field(table, name, type, width, decimals) ==
    IF has_key(table.fields, name)
    THEN [table EXCEPT !.fields =
            [i \in 1..Len(table.fields) |->
                IF table.fields[i].name = name
                THEN Field(name, type, width, decimals)
                ELSE table.fields[i]]]
    ELSE [table EXCEPT !.fields = Append(table.fields, Field(name, type, width, decimals))]

\* add_record putting the new record first
add_record_prepend(table, record) ==
    IF Len(record) # Len(table.fields)
    THEN [ok |-> FALSE, table |-> table]
    ELSE [ok |-> TRUE, table |-> [table EXCEPT !.records = <<record>> \o table.records]]

\* DBASETable.add_record: [ok |-> FALSE] stands for the ValueError
add_record(table, record) ==
    IF Len(record) # Len(table.fields)
    THEN [ok |-> FALSE, table |-> table]
    ELSE [ok |-> TRUE, table |-> [table EXCEPT !.records = Append(table.records, record)]]

\* no database_state.json
NoFile == [exists |-> FALSE, tables |-> <<>>, relations |-> <<>>]

(***************************************************************************)
(* The observation of the last command: what it was given, what it         *)
(* printed, for LIST the values of its local variables and for SAVE and    *)
(* QUIT the file written; `fault` says that an exception left the handler. *)
(***************************************************************************)
Obs(cmd, arg, msg) ==
    [cmd |-> cmd, arg |-> arg, msg |-> msg, fault |-> FALSE,
     start |-> 0, end |-> 0, fields |-> <<>>, cand |-> <<>>, rows |-> <<>>,
     file |-> NoFile]

\* Field.to_dict
Field_to_dict(f) ==
    [name |-> f.name, type |-> f.type, width |-> f.width, decimals |-> f.decimals]

\* Field.from_dict
Field_from_dict(data) == Field(data.name, data.type, data.width, data.decimals)

\* to_dict leaving the cursor out of the snapshot
to_dict_without_cursor(table) ==
    [name |-> table.name,
     fields |-> [i \in 1..Len(table.fields) |->
                    [key |-> table.fields[i].name, value |-> Field_to_dict(table.fields[i])]],
     records |-> table.records,
     current_record |-> 0]

\* DBASETable.to_dict: "fields" is the JSON object of the fields by name, in order
to_dict(table) ==
    [name |-> table.name,
     fields |-> [i \in 1..Len(table.fields) |->
                    [key |-> table.fields[i].name, value |-> Field_to_dict(table.fields[i])]],
     records |-> table.records,
     current_record |-> table.current_record]

\* DBASETable.from_dict: the OrderedDict is keyed by the JSON object's keys
from_dict(data) ==
    [name |-> data.name,
     fields |-> [i \in 1..Len(data.fields) |->
                    [Field_from_dict(data.fields[i].value) EXCEPT !.name = data.fields[i].key]],
     records |-> data.records,
     current_record |-> data.current_record]

\* the database_state.json that the session
\*   USE customers / ADD FIELD NAME C 10 / ADD FIELD id C 4 / ADD RECORD ALICE 1001 /
\*   ADD RECORD BOB 1001 / USE ORDERS / ADD FIELD id C 4 / ADD FIELD NAME C 10 /
\*   ADD RECORD 1001 BOB / SAVE
\* writes
ScenarioFile ==
    [exists |-> TRUE,
     tables |-> <<
        to_dict([name |-> "CUSTOMERS",
                 fields |-> <<Field("NAME", "C", 10, 0), Field("ID", "C", 4, 0)>>,
                 records |-> << <<"ALICE", "1001">>, <<"BOB", "1001">> >>,
                 current_record |-> 0]),
        to_dict([name |-> "ORDERS",
                 fields |-> <<Field("ID", "C", 4, 0), Field("NAME", "C", 10, 0)>>,
                 records |-> << <<"1001", "BOB">> >>,
                 current_record |-> 0]) >>,
     relations |-> <<>>]

\* the snapshot files an interpreter is started on
Snapshots == {NoFile, ScenarioFile}

\* DBASEInterpreter.load_database_state: self.tables and self.relations after it
load_database_state(file) ==
    IF file.exists
    THEN [tables |-> [n \in {file.tables[i].name : i \in 1..Len(file.tables)} |->
                        from_dict(file.tables[CHOOSE i \in 1..Len(file.tables) :
                                                file.tables[i].name = n
                                                /\ \A j \in (i + 1)..Len(file.tables) :
                                                      file.tables[j].name # n])],
          relations |-> file.relations]
    ELSE [tables |-> <<>>, relations |-> <<>>]

\* DBASEInterpreter.__init__
Init ==
    \E file \in Snapshots :
        /\ tables = load_database_state(file).tables
        /\ current_table = None
        /\ show_record_numbers = FALSE
        /\ relations = load_database_state(file).relations
        /\ last = Obs("", <<>>, "")
        /\ ncmds = 0

\* a command is read while the process runs (no exception has ended it and
\* QUIT has not stopped the loop) and the session is within bounds
Running == ncmds < MaxCmds /\ ~last.fault /\ last.cmd # "QUIT"

\* the argument strings CREATE and USE are given
TableNames == {"customers", "ORDERS"}

\* self.tables[table_name] = DBASETable(table_name)
put_table(tbls, name) ==
    [n \in (DOMAIN tbls) \cup {name} |-> IF n = name THEN DBASETable(name) ELSE tbls[n]]

\* do_create replacing a table that exists
do_create_replace(arg) ==
    LET table_name == upper(arg) IN
    /\ Running
    /\ tables' = put_table(tables, table_name)
    /\ last' = Obs("CREATE", <<arg>>,
                   IF table_name \in DOMAIN tables THEN "already exists" ELSE "created")
    /\ ncmds' = ncmds + 1
    /\ UNCHANGED <<current_table, show_record_numbers, relations>>

\* DBASEInterpreter.do_create
do_create(arg) ==
    LET table_name == upper(arg) IN
    /\ Running
    /\ IF table_name \in DOMAIN tables
       THEN /\ last' = Obs("CREATE", <<arg>>, "already exists")
            /\ UNCHANGED tables
       ELSE /\ tables' = put_table(tables, table_name)
            /\ last' = Obs("CREATE", <<arg>>, "created")
    /\ ncmds' = ncmds + 1
    /\ UNCHANGED <<current_table, show_record_numbers, relations>>

\* DBASEInterpreter.do_use
do_use(arg) ==
    LET table_name == upper(arg) IN
    /\ Running
    /\ IF table_name \in DOMAIN tables
       THEN /\ last' = Obs("USE", <<arg>>, "now in use")
            /\ UNCHANGED tables
       ELSE /\ tables' = put_table(tables, table_name)
            /\ last' = Obs("USE", <<arg>>, "created")
    /\ current_table' = table_name
    /\ ncmds' = ncmds + 1
    /\ UNCHANGED <<show_record_numbers, relations>>

\* the argument strings ADD FIELD is given
AddFieldArgs ==
    {<<"id", "C", "4">>, <<"NAME", "C", "10">>, <<"ID", "N", "10", "2">>, <<"NAME">>}

\* DBASEInterpreter.do_add_field
do_add_field(arg) ==
    /\ Running
    /\ IF current_table = None
       THEN /\ last' = Obs("ADD FIELD", arg, "No table in use")
            /\ UNCHANGED tables
       ELSE LET args == shlex_split(arg) IN
            IF Len(args) < 3
            THEN /\ last' = Obs("ADD FIELD", arg, "Invalid ADD FIELD command")
                 /\ UNCHANGED tables
            ELSE LET name == args[1]
                     type == args[2]
                     width == args[3]
                     decimals == IF Len(args) > 3 THEN int(args[4]) ELSE 0
                     t == tables[current_table]
                 IN /\ has_key(t.fields, upper(name)) \/ Len(t.fields) < MaxFields
                    /\ tables' = [tables EXCEPT ![current_table] =
                                    add_field(t, upper(name), upper(type), int(width), decimals)]
                    /\ last' = Obs("ADD FIELD", arg, "Field added")
    /\ ncmds' = ncmds + 1
    /\ UNCHANGED <<current_table, show_record_numbers, relations>>

\* the argument strings ADD RECORD is given
AddRecordArgs ==
    {<<>>, <<"1001">>, <<"9999">>, <<"\"1001\"", "ALICE">>, <<"9999", "ALICE">>}

\* do_add_record without its own length check: add_record's check raises
do_add_record_unchecked(arg) ==
    /\ Running
    /\ IF current_table = None
       THEN /\ last' = Obs("ADD RECORD", arg, "No table in use")
            /\ UNCHANGED tables
       ELSE LET values == shlex_split(arg)
                t == tables[current_table]
                r == add_record(t, values)
            IN /\ Len(t.records) < MaxRecords
               /\ IF r.ok
                  THEN /\ tables' = [tables EXCEPT ![current_table] = r.table]
                       /\ last' = Obs("ADD RECORD", arg, "Record added")
                  ELSE /\ UNCHANGED tables
                       /\ last' = [Obs("ADD RECORD", arg, "ValueError") EXCEPT !.fault = TRUE]
    /\ ncmds' = ncmds + 1
    /\ UNCHANGED <<current_table, show_record_numbers, relations>>

\* DBASEInterpreter.do_add_record
do_add_record(arg) ==
    /\ Running
    /\ IF current_table = None
       THEN /\ last' = Obs("ADD RECORD", arg, "No table in use")
            /\ UNCHANGED tables
       ELSE LET values == shlex_split(arg)
                t == tables[current_table]
            IN IF Len(values) # Len(t.fields)
               THEN /\ last' = Obs("ADD RECORD", arg, "Invalid number of values")
                    /\ UNCHANGED tables
               ELSE LET r == add_record(t, values) IN
                    /\ Len(t.records) < MaxRecords
                    /\ IF r.ok
                       THEN /\ tables' = [tables EXCEPT ![current_table] = r.table]
                            /\ last' = Obs("ADD RECORD", arg, "Record added")
                       ELSE /\ UNCHANGED tables
                            /\ last' = [Obs("ADD RECORD", arg, "ValueError") EXCEPT !.fault = TRUE]
    /\ ncmds' = ncmds + 1
    /\ UNCHANGED <<current_table, show_record_numbers, relations>>

\* set_relation looking for the field before the target table
set_relation_field_first(args) ==
    IF Len(args) < 4 \/ upper(args[1]) # "TO" \/ upper(args[3]) # "INTO"
    THEN [relations |-> relations, msg |-> "Invalid SET RELATION command"]
    ELSE LET field == args[2]
             table == args[4]
         IN IF current_table = None
            THEN [relations |-> relations, msg |-> "No table in use"]
            ELSE IF ~has_key(tables[current_table].fields, upper(field))
            THEN [relations |-> relations, msg |-> "Field does not exist"]
            ELSE IF upper(table) \notin DOMAIN tables
            THEN [relations |-> relations, msg |-> "Table does not exist"]
            ELSE [relations |->
                    Append(relations,
                           <<tables[current_table].name, upper(field), upper(table)>>),
                  msg |-> "Relation set"]

\* set_relation without the check of the field
set_relation_any_field(args) ==
    IF Len(args) < 4 \/ upper(args[1]) # "TO" \/ upper(args[3]) # "INTO"
    THEN [relations |-> relations, msg |-> "Invalid SET RELATION command"]
    ELSE LET field == args[2]
             table == args[4]
         IN IF current_table = None
            THEN [relations |-> relations, msg |-> "No table in use"]
            ELSE IF upper(table) \notin DOMAIN tables
            THEN [relations |-> relations, msg |-> "Table does not exist"]
            ELSE [relations |->
                    Append(relations,
                           <<tables[current_table].name, upper(field), upper(table)>>),
                  msg |-> "Relation set"]

\* DBASEInterpreter.set_relation: the relation set and the message it leaves
set_relation(args) ==
    IF Len(args) < 4 \/ upper(args[1]) # "TO" \/ upper(args[3]) # "INTO"
    THEN [relations |-> relations, msg |-> "Invalid SET RELATION command"]
    ELSE LET field == args[2]
             table == args[4]
         IN IF current_table = None
            THEN [relations |-> relations, msg |-> "No table in use"]
            ELSE IF upper(table) \notin DOMAIN tables
            THEN [relations |-> relations, msg |-> "Table does not exist"]
            ELSE IF ~has_key(tables[current_table].fields, upper(field))
            THEN [relations |-> relations, msg |-> "Field does not exist"]
            ELSE [relations |->
                    Append(relations,
                           <<tables[current_table].name, upper(field), upper(table)>>),
                  msg |-> "Relation set"]

\* the argument strings SET is given
SetArgs ==
    {<<"RECORD", "ON">>, <<"record", "off">>, <<"RECORD">>, <<"COLOR", "ON">>,
     <<"RELATION", "TO", "ID">>}
    \cup {<<"RELATION", "TO", f, "INTO", t>> : f \in {"id", "NAME"}, t \in {"customers", "ORDERS"}}
    \cup {<<"RELATION", "TO", "ID", "INTO", "GHOST">>}

\* DBASEInterpreter.do_set
do_set(arg) ==
    LET args == shlex_split(arg) IN
    /\ Running
    /\ IF Len(args) < 2
       THEN /\ last' = Obs("SET", arg, "Invalid SET command")
            /\ UNCHANGED <<show_record_numbers, relations>>
       ELSE LET option == args[1]
                value == SubSeq(args, 2, Len(args))
            IN IF upper(option) = "RECORD"
               THEN /\ show_record_numbers' = (Len(value) = 1 /\ upper(value[1]) = "ON")
                    /\ last' = Obs("SET RECORD", arg, "Record numbers")
                    /\ UNCHANGED relations
               ELSE IF upper(option) = "RELATION"
               THEN LET r == set_relation(value) IN
                    /\ Len(r.relations) <= MaxRelations
                    /\ relations' = r.relations
                    /\ last' = Obs("SET RELATION", arg, r.msg)
                    /\ UNCHANGED show_record_numbers
               ELSE /\ last' = Obs("SET", arg, "Unknown option")
                    /\ UNCHANGED <<show_record_numbers, relations>>
    /\ ncmds' = ncmds + 1
    /\ UNCHANGED <<tables, current_table>>

\* self.tables.values() as a sequence; the order of the tables in the file is
\* not read by any command (the tables are looked up by name)
values(tbls) ==
    LET n == Cardinality(DOMAIN tbls)
        order == CHOOSE f \in [1..n -> DOMAIN tbls] : \A i, j \in 1..n : i # j => f[i] # f[j]
    IN [i \in 1..n |-> tbls[order[i]]]

\* DBASEInterpreter.save_database_state: the database_state.json it writes;
\* json.dump writes a relation tuple as the array of its items
save_database_state ==
    [exists |-> TRUE,
     tables |-> [i \in 1..Len(values(tables)) |-> to_dict(values(tables)[i])],
     relations |-> [i \in 1..Len(relations) |->
                        [k \in 1..Len(relations[i]) |-> relations[i][k]]]]

\* the argument strings SAVE and QUIT are given (they do not read them)
SaveArgs == {<<>>}

\* DBASEInterpreter.do_save
do_save(arg) ==
    /\ Running
    /\ last' = [Obs("SAVE", arg, "Database state saved") EXCEPT !.file = save_database_state]
    /\ ncmds' = ncmds + 1
    /\ UNCHANGED <<tables, current_table, show_record_numbers, relations>>

\* DBASEInterpreter.do_quit: saves and returns True, which stops cmdloop
do_quit(arg) ==
    /\ Running
    /\ last' = [Obs("QUIT", arg, "Database state saved") EXCEPT !.file = save_database_state]
    /\ ncmds' = ncmds + 1
    /\ UNCHANGED <<tables, current_table, show_record_numbers, relations>>

(***************************************************************************)
(* LIST.                                                                   *)
(***************************************************************************)
Min(a, b) == IF a < b THEN a ELSE b
Max(a, b) == IF a > b THEN a ELSE b

\* the local variables of do_list while it reads its options (lines 177-206)
ListLocals(t) ==
    [start |-> t.current_record, end |-> Len(t.records), fields_to_list |-> keys(t.fields),
     condition |-> <<>>, structure |-> FALSE, fault |-> FALSE]

\* the position of the first "FOR" at or after i, or len(args) + 1
find_for(args, i) ==
    IF \E j \in i..Len(args) : args[j] = "FOR"
    THEN CHOOSE j \in i..Len(args) : args[j] = "FOR" /\ \A k \in i..(j - 1) : args[k] # "FOR"
    ELSE Len(args) + 1

\* the option loop of do_list (lines 183-206), from word i on
RECURSIVE parse_options(_, _, _)
parse_options(args, i, st) ==
    IF i > Len(args) THEN st
    ELSE IF args[i] = "NEXT"
    THEN IF i + 1 > Len(args) \/ args[i + 1] \notin Numerals
         THEN [st EXCEPT !.fault = TRUE]
         ELSE parse_options(args, i + 2, [st EXCEPT !.end = st.start + int(args[i + 1])])
    ELSE IF args[i] = "REST"
    THEN parse_options(args, i + 1, st)
    ELSE IF args[i] = "ALL"
    THEN parse_options(args, i + 1, [st EXCEPT !.start = 0])
    ELSE IF args[i] = "FIELDS"
    THEN LET j == find_for(args, i + 1) IN
         parse_options(args, j, [st EXCEPT !.fields_to_list = SubSeq(args, i + 1, j - 1)])
    ELSE IF args[i] = "FOR"
    THEN [st EXCEPT !.condition = SubSeq(args, i + 1, Len(args))]
    ELSE IF args[i] = "STRUCTURE"
    THEN [st EXCEPT !.structure = TRUE]
    ELSE parse_options(args, i + 1, st)

\* the relations whose source is the current table, in declaration order
RECURSIVE relations_from(_, _)
relations_from(rels, name) ==
    IF rels = <<>> THEN <<>>
    ELSE IF Head(rels)[1] = name
         THEN <<Head(rels)>> \o relations_from(Tail(rels), name)
         ELSE relations_from(Tail(rels), name)

\* get_related_fields adding a target table's fields once however often it is related
RECURSIVE get_related_fields_once(_)
get_related_fields_once(rels) ==
    IF rels = <<>> THEN <<>>
    ELSE LET related_table == tables[Head(rels)[3]]
             rest == get_related_fields_once(Tail(rels))
         IN IF \E i \in 1..Len(rest) : rest[i].t = Head(rels)[3]
            THEN rest
            ELSE [i \in 1..Len(related_table.fields) |->
                    qualified(Head(rels)[3], related_table.fields[i].name)] \o rest

\* DBASEInterpreter.get_related_fields
RECURSIVE get_related_fields_of(_)
get_related_fields_of(rels) ==
    IF rels = <<>> THEN <<>>
    ELSE LET related_table == tables[Head(rels)[3]] IN
         [i \in 1..Len(related_table.fields) |->
            qualified(Head(rels)[3], related_table.fields[i].name)]
         \o get_related_fields_of(Tail(rels))

get_related_fields_dedup ==
    get_related_fields_once(relations_from(relations, tables[current_table].name))

get_related_fields == get_related_fields_of(relations_from(relations, tables[current_table].name))

\* DBASEInterpreter.get_field_width; -1 stands for the KeyError
get_field_width(field) ==
    IF field.t # ""
    THEN IF field.t \in DOMAIN tables /\ has_key(tables[field.t].fields, field.f)
         THEN tables[field.t].fields[index(keys(tables[field.t].fields), field.f)].width
         ELSE -1
    ELSE IF has_key(tables[current_table].fields, field.f)
         THEN tables[current_table].fields[index(keys(tables[current_table].fields), field.f)].width
         ELSE -1

\* a Python value of a filter expression: a str or an int
StrVal(s) == [ok |-> TRUE, k |-> "str", s |-> s]
IntVal(s) == [ok |-> TRUE, k |-> "int", s |-> s]
Raise == [ok |-> FALSE, k |-> "", s |-> ""]

\* the words Python reads as a string literal
StrLiterals == {"\"1001\"", "\"9999\"", "\"ALICE\""}

\* eval of one operand word under the bindings zip(fields.keys(), record)
operand(tok, names, record) ==
    IF tok \in StrLiterals THEN StrVal(unquote(tok))
    ELSE IF tok \in Numerals THEN IntVal(tok)
    ELSE LET k == index(names, tok) IN
         IF k > 0 /\ k <= Len(record) THEN StrVal(record[k]) ELSE Raise

\* bool(value)
truthy(v) == IF v.k = "str" THEN v.s # "" ELSE int(v.s) # 0

\* DBASEInterpreter.evaluate_condition, for a condition that is one operand
\* or `operand == operand`: any exception of eval gives False
evaluate_condition(condition, record) ==
    LET names == keys(tables[current_table].fields) IN
    IF Len(condition) = 1
    THEN LET v == operand(condition[1], names, record) IN v.ok /\ truthy(v)
    ELSE IF Len(condition) = 3 /\ condition[2] = "=="
    THEN LET a == operand(condition[1], names, record)
             b == operand(condition[3], names, record)
         IN a.ok /\ b.ok /\ a = b
    ELSE FALSE

\* the relation declared last, in place of the first
first_relation_last(related_table) ==
    LET name == tables[current_table].name
        hit == {i \in 1..Len(relations) :
                    relations[i][1] = name /\ relations[i][3] = related_table}
    IN IF hit = {} THEN <<>>
       ELSE relations[CHOOSE i \in hit : \A j \in hit : i >= j]

\* the first relation from the current table into related_table, or <<>>
first_relation(related_table) ==
    LET name == tables[current_table].name
        hit == {i \in 1..Len(relations) :
                    relations[i][1] = name /\ relations[i][3] = related_table}
    IN IF hit = {} THEN <<>>
       ELSE relations[CHOOSE i \in hit : \A j \in hit : i <= j]

\* the value format_record finds for a related field (lines 249-259)
related_value(record, field) ==
    LET relation == first_relation(field.t) IN
    IF relation = <<>> THEN StrVal("")
    ELSE LET key_field == relation[2]
             ki == index(keys(tables[current_table].fields), key_field)
         IN IF ki = 0 \/ ki > Len(record) THEN Raise
            ELSE LET key_value == record[ki]
                     rt == tables[field.t]
                     kj == index(keys(rt.fields), key_field)
                     \* the records the generator visits: up to the first match
                     match == {n \in 1..Len(rt.records) :
                                 kj > 0 /\ kj <= Len(rt.records[n])
                                 /\ rt.records[n][kj] = key_value}
                     bad == {n \in 1..Len(rt.records) : kj = 0 \/ kj > Len(rt.records[n])}
                     firstm == IF match = {} THEN Len(rt.records) + 1
                               ELSE CHOOSE n \in match : \A m \in match : n <= m
                 IN IF \E n \in bad : n < firstm THEN Raise
                    ELSE IF match = {} THEN StrVal("")
                    ELSE LET related_record == rt.records[firstm]
                             fi == index(keys(rt.fields), field.f)
                         IN IF fi = 0 \/ fi > Len(related_record) THEN Raise
                            ELSE StrVal(related_record[fi])

\* the value format_record finds for one projected field (lines 247-261)
field_value(record, field) ==
    IF field.t # "" THEN related_value(record, field)
    ELSE LET fi == index(keys(tables[current_table].fields), field.f) IN
         IF fi = 0 \/ fi > Len(record) THEN Raise ELSE StrVal(record[fi])

\* f"{str(value):{width}}": the value, padded with spaces up to the width
Cell(value, width) == [v |-> value, w |-> width, len |-> Max(strlen(value), width)]

\* DBASEInterpreter.format_record: the cells of the row, or the exception
format_record(record, fields_to_list) ==
    LET vals == [i \in 1..Len(fields_to_list) |-> field_value(record, fields_to_list[i])] IN
    IF \E i \in 1..Len(vals) : ~vals[i].ok \/ get_field_width(fields_to_list[i]) < 0
    THEN [ok |-> FALSE, cells |-> <<>>]
    ELSE [ok |-> TRUE,
          cells |-> [i \in 1..Len(vals) |-> Cell(vals[i].s, get_field_width(fields_to_list[i]))]]

\* where a slice bound lands in a list of length n (Python's slice rule)
slice_index(x, n) == IF x < 0 THEN Max(x + n, 0) ELSE Min(x, n)

\* enumerate(records[start:end], start=start): the pairs (i, position in records)
candidates(records, start, end) ==
    LET lo == slice_index(start, Len(records))
        hi == slice_index(end, Len(records))
    IN [k \in 1..Max(hi - lo, 0) |-> [i |-> start + k - 1, pos |-> lo + k]]

\* the record loop of do_list (lines 220-226) over the candidates from k on:
\* the rows printed, and whether format_record raised
RECURSIVE print_records(_, _, _, _, _)
print_records(records, cand, k, condition, fields_to_list) ==
    IF k > Len(cand) THEN [rows |-> <<>>, fault |-> FALSE]
    ELSE LET record == records[cand[k].pos] IN
         IF condition # <<>> /\ ~evaluate_condition(condition, record)
         THEN print_records(records, cand, k + 1, condition, fields_to_list)
         ELSE LET r == format_record(record, fields_to_list) IN
              IF ~r.ok THEN [rows |-> <<>>, fault |-> TRUE]
              ELSE LET rest == print_records(records, cand, k + 1, condition, fields_to_list)
                       row == [i |-> cand[k].i,
                               numbered |-> show_record_numbers, number |-> cand[k].i + 1,
                               cells |-> r.cells]
                   IN [rows |-> <<row>> \o rest.rows, fault |-> rest.fault]

\* DBASEInterpreter.list_structure: the catalog printed, one line per field
list_structure == tables[current_table].fields

\* the argument strings LIST is given: the range options,
ListRanges == {<<>>, <<"ALL">>, <<"NEXT", "1">>, <<"next", "2">>, <<"NEXT", "-1">>}

\* the filters (one that no record of these tables passes as written, one that
\* compares with a string literal, one that is true, one that is malformed),
ListFilters ==
    {<<>>, <<"FOR", "ID", "==", "\"1001\"">>, <<"FOR", "ID", "==", "'\"1001\"'">>,
     <<"for", "1", "==", "1">>, <<"FOR", "==">>}

\* and ranges with filters, field lists and STRUCTURE
ListArgs ==
    ListRanges
    \cup {r \o f : r \in {<<"ALL">>, <<"next", "2">>}, f \in ListFilters}
    \cup {<<"FIELDS", "ID">>, <<"FIELDS", "NAME", "NEXT", "1">>, <<"FIELDS", "CUSTOMERS.NAME">>,
          <<"STRUCTURE">>, <<"NEXT", "1", "STRUCTURE">>, <<"FIELDS", "ID", "STRUCTURE">>,
          <<"ALL", "FOR", "1", "==", "1", "STRUCTURE">>,
          <<"NEXT">>}

\* do_list with a table in use (lines 177-228): what it prints, whether an
\* exception left it, and the cursor it leaves
list_outcome(arg) ==
    LET t == tables[current_table]
        st == parse_options(shlex_split(upper_words(arg)), 1, ListLocals(t))
    IN IF st.fault
       THEN [obs |-> [Obs("LIST", arg, "exception in options") EXCEPT !.fault = TRUE],
             current_record |-> t.current_record]
       ELSE IF st.structure
       THEN [obs |-> [Obs("LIST", arg, "structure") EXCEPT !.fields = list_structure],
             current_record |-> t.current_record]
       ELSE LET fields_to_list ==
                    [i \in 1..Len(st.fields_to_list) |-> dotted(st.fields_to_list[i])]
                    \o get_related_fields
                header_ok == \A i \in 1..Len(fields_to_list) :
                                get_field_width(fields_to_list[i]) >= 0
                cand == candidates(t.records, st.start, st.end)
                p == print_records(t.records, cand, 1, st.condition, fields_to_list)
                o == [Obs("LIST", arg, "records") EXCEPT
                        !.start = st.start, !.end = st.end, !.fields = fields_to_list]
            IN IF ~header_ok
               THEN [obs |-> [o EXCEPT !.fault = TRUE, !.msg = "exception in header"],
                     current_record |-> t.current_record]
               ELSE IF p.fault
               THEN [obs |-> [o EXCEPT !.fault = TRUE, !.msg = "exception in row",
                                       !.cand = cand, !.rows = p.rows],
                     current_record |-> t.current_record]
               ELSE [obs |-> [o EXCEPT !.cand = cand, !.rows = p.rows],
                     current_record |-> st.end]

\* do_list advancing the cursor of the relation targets it scans as well
do_list_moving_targets(arg) ==
    /\ Running
    /\ IF current_table = None
       THEN /\ last' = Obs("LIST", arg, "No table in use")
            /\ UNCHANGED tables
       ELSE \E r \in {list_outcome(arg)} :
            /\ r.current_record >= -MaxCursor /\ r.current_record <= MaxCursor
            /\ last' = r.obs
            /\ tables' = [n \in DOMAIN tables |->
                            IF n = current_table
                               \/ \E i \in 1..Len(relations) :
                                     relations[i][1] = current_table /\ relations[i][3] = n
                            THEN [tables[n] EXCEPT !.current_record = r.current_record]
                            ELSE tables[n]]
    /\ ncmds' = ncmds + 1
    /\ UNCHANGED <<current_table, show_record_numbers, relations>>

\* DBASEInterpreter.do_list
do_list(arg) ==
    /\ Running
    /\ IF current_table = None
       THEN /\ last' = Obs("LIST", arg, "No table in use")
            /\ UNCHANGED tables
       ELSE \E r \in {list_outcome(arg)} :
            /\ r.current_record >= -MaxCursor /\ r.current_record <= MaxCursor
            /\ last' = r.obs
            /\ tables' = [tables EXCEPT ![current_table].current_record = r.current_record]
    /\ ncmds' = ncmds + 1
    /\ UNCHANGED <<current_table, show_record_numbers, relations>>

Next ==
    \/ \E a \in TableNames : do_create(a)
    \/ \E a \in TableNames : do_use(a)
    \/ \E a \in AddFieldArgs : do_add_field(a)
    \/ \E a \in AddRecordArgs : do_add_record(a)
    \/ \E a \in SetArgs : do_set(a)
    \/ \E a \in ListArgs : do_list(a)
    \/ \E a \in SaveArgs : do_save(a)
    \/ \E a \in SaveArgs : do_quit(a)

Spec == Init /\ [][Next]_vars

(***************************************************************************)
(* The claims.  A step is recognised by the observation it leaves: every   *)
(* command increments ncmds and sets `last` to its own observation.        *)
(***************************************************************************)

\* the cursor of the table in use
Cursor == tables[current_table].current_record

\* a LIST step on a table in use
ListStep == last'.cmd = "LIST" /\ current_table # None

\* the LIST arguments whose only range option is NEXT n, and that n
NextOnlyArgs ==
    {<<"NEXT", "1">>, <<"NEXT", "-1">>} \cup {<<"next", "2">> \o f : f \in ListFilters}

NextCount(arg) == int(arg[2])

\* the LIST arguments whose only range option is ALL
AllOnlyArgs == {<<"ALL">> \o f : f \in ListFilters}

\* all records of the table in use as candidates, from index 0 upwards
AllCandidates(t) == [k \in 1..Len(t.records) |-> [i |-> k - 1, pos |-> k]]

\* C1: a LIST whose only range option is NEXT n, issued when the cursor of the
\* table in use is c, leaves the cursor at c + n, whatever the record count.
C1_NextAdvancesCursor ==
    [][(ListStep /\ last'.arg \in NextOnlyArgs)
        => tables'[current_table].current_record = Cursor + NextCount(last'.arg)]_vars

\* C1, restricted to the LIST commands that return (no exception leaves do_list)
C1_NextAdvancesCursorOnReturn ==
    [][(ListStep /\ last'.arg \in NextOnlyArgs /\ ~last'.fault)
        => tables'[current_table].current_record = Cursor + NextCount(last'.arg)]_vars

\* C2: a LIST whose only range option is ALL has all records of the table, from
\* index 0 in ascending order, as its candidate rows and leaves the cursor at
\* the record count, whatever the cursor was.
C2_AllScansEverything ==
    [][(ListStep /\ last'.arg \in AllOnlyArgs)
        => /\ last'.cand = AllCandidates(tables[current_table])
           /\ tables'[current_table].current_record = Len(tables[current_table].records)]_vars

\* C2, restricted to the LIST commands that return
C2_AllScansEverythingOnReturn ==
    [][(ListStep /\ last'.arg \in AllOnlyArgs /\ ~last'.fault)
        => /\ last'.cand = AllCandidates(tables[current_table])
           /\ tables'[current_table].current_record = Len(tables[current_table].records)]_vars

\* C3: in every state and for every range option, LIST with a filter leaves the
\* cursor where the same LIST without the filter leaves it, and scans the same
\* range [start, end).
C3_FilterDoesNotMoveCursor ==
    current_table # None =>
        \A r \in ListRanges : \A f \in ListFilters :
            list_outcome(r \o f).current_record = list_outcome(r).current_record

\* C3, restricted to the states in which the LIST without the filter returns
C3_FilterDoesNotMoveCursorOnReturn ==
    current_table # None =>
        \A r \in ListRanges : \A f \in ListFilters :
            ~list_outcome(r).obs.fault =>
                /\ list_outcome(r \o f).current_record = list_outcome(r).current_record
                /\ list_outcome(r \o f).obs.start = list_outcome(r).obs.start
                /\ list_outcome(r \o f).obs.end = list_outcome(r).obs.end
                /\ ~list_outcome(r \o f).obs.fault

\* the stored value of the field `name` in the record at position pos of the
\* table in use, or "<missing>" where the record has no such position
StoredValue(pos, name) ==
    LET t == tables[current_table]
        k == index(keys(t.fields), name)
    IN IF k > 0 /\ k <= Len(t.records[pos]) THEN t.records[pos][k] ELSE "<missing>"

\* the indexes of the rows the last LIST printed
Emitted == {last.rows[k].i : k \in 1..Len(last.rows)}

\* C4: the filter ID == "1001" emits exactly the candidate records whose stored
\* ID is 1001 (and ID == "9999" those whose stored ID is 9999).
C4_EqualityFilterSelects ==
    (/\ last.cmd = "LIST"
     /\ last.msg = "records"
     /\ last.arg = <<"ALL", "FOR", "ID", "==", "\"1001\"">>)
    => Emitted = {last.cand[k].i : k \in {j \in 1..Len(last.cand) :
                                             StoredValue(last.cand[j].pos, "ID") = "1001"}}

\* the value the claim names for the related field T.F of the record at pos:
\* through the first relation (S, K, T), the F of the first record of T whose
\* value at K's position in T's field list is the record's K; else empty
JoinedValue(pos, T, F) ==
    LET S == tables[current_table]
        declared == {i \in 1..Len(relations) :
                        relations[i][1] = S.name /\ relations[i][3] = T}
    IN IF declared = {} THEN ""
       ELSE LET K == relations[CHOOSE i \in declared : \A j \in declared : i <= j][2]
                kpos == index(keys(tables[T].fields), K)
                fpos == index(keys(tables[T].fields), F)
                matching == {n \in 1..Len(tables[T].records) :
                                /\ kpos > 0 /\ kpos <= Len(tables[T].records[n])
                                /\ tables[T].records[n][kpos] = StoredValue(pos, K)}
            IN IF matching = {} THEN ""
               ELSE tables[T].records[CHOOSE n \in matching : \A m \in matching : n <= m][fpos]

\* the position in the table in use of the record a printed row shows
RowPos(row) ==
    CHOOSE p \in 1..Len(tables[current_table].records) :
        \E k \in 1..Len(last.cand) : last.cand[k].i = row.i /\ last.cand[k].pos = p

RequestedFields(args) ==
    LET at == CHOOSE i \in 1..Len(args) : args[i] = "FIELDS" IN
    SubSeq(args, at + 1, find_for(args, at + 1) - 1)

\* the fields of the relation targets, once per relation from the table in use
RECURSIVE RelatedExpansion(_)
RelatedExpansion(i) ==
    IF i > Len(relations) THEN <<>>
    ELSE (IF relations[i][1] = tables[current_table].name
          THEN [k \in 1..Len(tables[relations[i][3]].fields) |->
                    [t |-> relations[i][3], f |-> tables[relations[i][3]].fields[k].name]]
          ELSE <<>>) \o RelatedExpansion(i + 1)

\* C6: the projection set of a record LIST (one that reaches line 210, whether
\* or not it then raises) is the requested fields, or by
\* default the own fields in declaration order, followed by all fields of the
\* target of every relation from the table in use, once per declared relation.
C6_ProjectionSet ==
    (last.cmd = "LIST" /\ last.msg \in {"records", "exception in header", "exception in row"})
    => LET args == shlex_split(upper_words(last.arg))
           own == IF \E i \in 1..Len(args) : args[i] = "FIELDS"
                  THEN [i \in 1..Len(RequestedFields(args)) |-> dotted(RequestedFields(args)[i])]
                  ELSE [i \in 1..Len(tables[current_table].fields) |->
                            [t |-> "", f |-> tables[current_table].fields[i].name]]
       IN last.fields = own \o RelatedExpansion(1)

\* a LIST with FIELDS on a table with the same relation declared twice
C6_Witness ==
    /\ last.cmd = "LIST" /\ last.msg = "records"
    /\ last.arg = <<"FIELDS", "ID">>
    /\ Len(relations) = 2 /\ relations[1] = relations[2]
    /\ Len(last.fields) = 5

\* C7: a table's records are the value tuples of the successful ADD RECORD
\* commands on it, in order and unchanged: a successful ADD RECORD appends its
\* values to the table in use and no other step changes any table's records.
C7_RecordsAppendOnly ==
    [][/\ \A n \in DOMAIN tables :
            /\ n \in DOMAIN tables'
            /\ tables'[n].records =
                  IF last'.cmd = "ADD RECORD" /\ last'.msg = "Record added" /\ n = current_table
                  THEN Append(tables[n].records, shlex_split(last'.arg))
                  ELSE tables[n].records
       /\ \A n \in DOMAIN tables' \ DOMAIN tables : tables'[n].records = <<>>]_vars

\* two records added to one table, the second after the first
C7_Witness ==
    /\ last.cmd = "ADD RECORD" /\ last.msg = "Record added"
    /\ current_table # None
    /\ tables[current_table].records = << <<"9999">>, <<"1001">> >>

\* C8: ADD RECORD with a number of values other than the field count of the
\* table in use is reported and changes nothing of the database.
C8_WrongSizeRejected ==
    [][(/\ last'.cmd = "ADD RECORD"
        /\ current_table # None
        /\ Len(shlex_split(last'.arg)) # Len(tables[current_table].fields))
        => /\ UNCHANGED db
           /\ last'.msg = "Invalid number of values"
           /\ ~last'.fault]_vars

\* a wrongly-sized ADD RECORD on a table that has records
C8_Witness ==
    /\ last.cmd = "ADD RECORD" /\ last.msg = "Invalid number of values"
    /\ Len(last.arg) = 2
    /\ current_table # None
    /\ Len(tables[current_table].fields) = 1
    /\ Len(tables[current_table].records) = 1

\* the well-formed SET RELATION arguments: TO <field> INTO <table>
IsSetRelation(arg) == Len(arg) = 5 /\ upper(arg[1]) = "RELATION"

\* C9: SET RELATION TO field INTO target leaves the Relation Set unchanged when
\* no table is in use, else when the target is no table, else when the field is
\* no field of the table in use (in that order); otherwise it appends the one
\* triple (table in use, FIELD, TARGET).
C9_SetRelation ==
    [][(last'.cmd = "SET RELATION" /\ IsSetRelation(last'.arg))
        => LET field == upper(last'.arg[3])
               target == upper(last'.arg[5])
           IN IF current_table = None
              THEN relations' = relations /\ last'.msg = "No table in use"
              ELSE IF target \notin DOMAIN tables
              THEN relations' = relations /\ last'.msg = "Table does not exist"
              ELSE IF \A i \in 1..Len(tables[current_table].fields) :
                        tables[current_table].fields[i].name # field
              THEN relations' = relations /\ last'.msg = "Field does not exist"
              ELSE relations' = Append(relations, <<current_table, field, target>>)]_vars

\* the same relation declared a second time
C9_Witness ==
    /\ last.cmd = "SET RELATION" /\ last.msg = "Relation set"
    /\ Len(relations) = 2 /\ relations[1] = relations[2]

\* C10: ADD FIELD, ADD RECORD, SET RELATION and LIST with no table in use, and
\* CREATE of a name that exists (upper-cased), change nothing of the database.
C10_PreconditionFailuresChangeNothing ==
    [][(\/ /\ last'.cmd \in {"ADD FIELD", "ADD RECORD", "SET RELATION", "LIST"}
           /\ current_table = None
        \/ /\ last'.cmd = "CREATE"
           /\ upper(last'.arg[1]) \in DOMAIN tables)
        => UNCHANGED db]_vars

\* CREATE customers on a database whose CUSTOMERS table has fields, records
\* and a moved cursor
C10_Witness ==
    /\ last.cmd = "CREATE" /\ last.msg = "already exists" /\ last.arg = <<"customers">>
    /\ Len(tables["CUSTOMERS"].records) = 2
    /\ tables["CUSTOMERS"].current_record = 2

\* C11: every LIST with a table in use whose options are well formed (every NEXT
\* has its number) runs to completion: no exception leaves it, and a record
\* LIST sets the cursor to its `end`.
C11_ListRunsToCompletion ==
    [][(ListStep /\ last'.msg # "exception in options")
        => /\ ~last'.fault
           /\ last'.msg = "records"
                => tables'[current_table].current_record = last'.end]_vars

\* the LIST arguments with the word STRUCTURE among their options
HasStructure(arg) == \E i \in 1..Len(arg) : upper(arg[i]) = "STRUCTURE"

\* C12: a LIST with STRUCTURE among its options, wherever it stands, prints the
\* field catalog of the table in use (the own fields in declaration order) and
\* leaves the cursor unchanged.
C12_StructureWhereverItStands ==
    [][(ListStep /\ HasStructure(last'.arg))
        => /\ last'.msg = "structure"
           /\ last'.fields = tables[current_table].fields
           /\ tables'[current_table].current_record = Cursor]_vars

\* C13: the file SAVE (or QUIT) writes, loaded into a fresh interpreter, gives
\* the same table names, for each table the same fields in the same order, the
\* same records in the same order and the same cursor, and the same sequence
\* of relation triples.
C13_SaveLoadRoundTrip ==
    last.cmd \in {"SAVE", "QUIT"}
    => LET fresh == load_database_state(last.file) IN
       /\ DOMAIN fresh.tables = DOMAIN tables
       /\ \A n \in DOMAIN tables :
            /\ fresh.tables[n].name = tables[n].name
            /\ fresh.tables[n].fields = tables[n].fields
            /\ fresh.tables[n].records = tables[n].records
            /\ fresh.tables[n].current_record = tables[n].current_record
       /\ fresh.relations = relations

\* a SAVE of two tables, one with a moved cursor, and a relation
C13_Witness ==
    /\ last.cmd = "SAVE"
    /\ relations # <<>>
    /\ Cardinality(DOMAIN tables) = 2
    /\ \E n \in DOMAIN tables :
          tables[n].current_record # 0 /\ tables[n].records # <<>> /\ tables[n].fields # <<>>

\* C14: every cell of every row LIST prints is exactly as long as the declared
\* width of its column (padded when shorter, truncated when longer).
C14_CellsHaveColumnWidth ==
    last.cmd = "LIST"
    => \A k \in 1..Len(last.rows) : \A j \in 1..Len(last.rows[k].cells) :
          last.rows[k].cells[j].len = last.rows[k].cells[j].w

\* the field names of every table are pairwise distinct, compared upper-cased
FieldNamesDistinct ==
    \A n \in DOMAIN tables : \A i, j \in 1..Len(tables[n].fields) :
        i < j => upper(tables[n].fields[i].name) # upper(tables[n].fields[j].name)

\* every field of a table keeps its position in the field list over the step,
\* so that every two fields are still there, in the same order
FieldOrderKept ==
    \A n \in DOMAIN tables :
        /\ n \in DOMAIN tables'
        /\ \/ tables'[n].fields = tables[n].fields
           \/ /\ Len(tables'[n].fields) >= Len(tables[n].fields)
              /\ \A i \in 1..Len(tables[n].fields) :
                    tables'[n].fields[i].name = tables[n].fields[i].name

\* C15: in every state the field names of each table are pairwise distinct, and
\* no command changes the relative order of two fields of a table, ADD FIELD of
\* a name the table already has included.
C15_FieldNamesUniqueAndOrdered ==
    []FieldNamesDistinct /\ [][FieldOrderKept]_vars

\* ADD FIELD of the first of two existing fields, under another spelling and
\* with another definition
C15_Witness ==
    /\ last.cmd = "ADD FIELD" /\ last.msg = "Field added"
    /\ last.arg = <<"id", "C", "4">>
    /\ keys(tables[current_table].fields) = <<"ID", "NAME">>
    /\ Len(tables[current_table].records) = 1

\* a successful ADD FIELD step
AddFieldStep == last'.cmd = "ADD FIELD" /\ last'.msg = "Field added"

\* the definition ADD FIELD makes of its argument words
NewField(arg) ==
    Field(upper(arg[1]), upper(arg[2]), int(arg[3]), IF Len(arg) > 3 THEN int(arg[4]) ELSE 0)

\* C16: every successful ADD FIELD appends one definition at the end of the
\* field list of the table in use and leaves the existing definitions
\* unchanged, so that the field count grows by one, also for a name the table
\* already has.
C16_AddFieldAppends ==
    [][AddFieldStep
        => tables'[current_table].fields
              = Append(tables[current_table].fields, NewField(last'.arg))]_vars

\* C16 as amended: a successful ADD FIELD of a name the table in use does not
\* have appends one definition at the end and leaves the others unchanged (the
\* field count grows by one); of a name the table has, it replaces the
\* definition under that name at its position and leaves the others, the order
\* and the field count unchanged.
C16_AddFieldAppendsOrReplaces ==
    [][AddFieldStep
        => LET old == tables[current_table].fields
               new == NewField(last'.arg)
           IN IF \E i \in 1..Len(old) : old[i].name = new.name
              THEN /\ Len(tables'[current_table].fields) = Len(old)
                   /\ \A i \in 1..Len(old) :
                        tables'[current_table].fields[i]
                            = IF old[i].name = new.name THEN new ELSE old[i]
              ELSE tables'[current_table].fields = Append(old, new)]_vars

\* the first of two fields of a table with records is defined again, differently
C16_Witness ==
    /\ last.cmd = "ADD FIELD" /\ last.msg = "Field added"
    /\ last.arg = <<"ID", "N", "10", "2">>
    /\ tables[current_table].fields = <<Field("ID", "N", 10, 2), Field("NAME", "C", 10, 0)>>
    /\ tables[current_table].records = << <<"1001", "BOB">> >>

\* the positions in the records of the candidate rows of a LIST
CandidatePositions(cand) == {cand[k].pos : k \in 1..Len(cand)}

C18_RelationsReferToTables ==
    \A i \in 1..Len(relations) :
        /\ relations[i][1] \in DOMAIN tables
        /\ relations[i][3] \in DOMAIN tables
        /\ has_key(tables[relations[i][1]].fields, relations[i][2])

\* the key field of a declared relation is added again to its source table
C18_Witness ==
    /\ last.cmd = "ADD FIELD" /\ last.msg = "Field added"
    /\ relations # <<>>
    /\ relations[1][1] = current_table
    /\ relations[1][2] = upper(last.arg[1])

\* C19: the cursor of every table is a non-negative integer in every state.
C19_CursorNonNegative ==
    \A n \in DOMAIN tables : tables[n].current_record >= 0

\* C20: a LIST changes nothing but the cursor of the table in use: the table
\* set, every table's fields and records, the cursors of the other tables, the
\* relations, the table in use and the display flag stay.
C20_ListIsReadOnly ==
    [][last'.cmd = "LIST"
        => /\ DOMAIN tables' = DOMAIN tables
           /\ \A n \in DOMAIN tables :
                /\ tables'[n].name = tables[n].name
                /\ tables'[n].fields = tables[n].fields
                /\ tables'[n].records = tables[n].records
                /\ n # current_table => tables'[n].current_record = tables[n].current_record
           /\ UNCHANGED <<relations, current_table, show_record_numbers>>]_vars

\* a LIST that joined a record of another table and moved its own cursor only
C20_Witness ==
    /\ last.cmd = "LIST" /\ last.msg = "records"
    /\ \E k \in 1..Len(last.rows) : \E j \in 1..Len(last.fields) :
          last.fields[j].t # "" /\ last.rows[k].cells[j].v # ""
    /\ \E i \in 1..Len(relations) :
          /\ relations[i][1] = current_table
          /\ tables[relations[i][3]].current_record # tables[current_table].current_record

====
